---- MODULE Spec2Model ----
(***************************************************************************)
(* A model of xs.py, the Python client of the cross-stream store.          *)
(*                                                                         *)
(* Text is modelled as a sequence of one-character strings, indexed from 0 *)
(* through the helpers below as Python indexes it.  Two tokens stand for   *)
(* header text that is longer than one character: "H" for the status line  *)
(* and "T" for the literal "Transfer-Encoding: chunked".  Frames, IDs,    *)
(* names and hashes are records and strings.  The store itself is not     *)
(* part of xs.py: it is modelled as the specification describes it.       *)
(***************************************************************************)
EXTENDS Integers, Sequences, FiniteSets, TLC

\* ------------------------------------------------------------------ bounds
MaxChunks == 2
MaxChunkLen == 2
MaxBody == 4
MaxStore == 3
MaxFraming == 4
MaxLines == 3
MaxSockets == 3

\* ------------------------------------------------------ Python str helpers
CR == "\r"
LF == "\n"
CRLF == <<CR, LF>>
CRLFCRLF == <<CR, LF, CR, LF>>

\* the characters str.strip(), int() and splitlines() treat as white space
Whitespace == {" ", "\t", "\n", "\r", "\f"}

HexDigits ==
    {"0", "1", "2", "3", "4", "5", "6", "7", "8", "9",
     "a", "b", "c", "d", "e", "f", "A", "B", "C", "D", "E", "F"}

Min(a, b) == IF a < b THEN a ELSE b
Max(a, b) == IF a > b THEN a ELSE b

\* s[i:j] with Python's clamping and its counting of negative indices
\* from the end
SliceIndex(s, i) ==
    IF i < 0 THEN Max(Len(s) + i, 0) ELSE Min(i, Len(s))

Slice(s, i, j) ==
    SubSeq(s, SliceIndex(s, i) + 1, SliceIndex(s, j))

SliceFrom(s, i) == Slice(s, i, Len(s))

\* s.find(sub, start): the lowest 0-based index >= start where sub occurs,
\* or -1
Find(s, sub, start) ==
    LET from == SliceIndex(s, start)
        hits == {i \in from .. (Len(s) - Len(sub)) :
                    \A j \in 1 .. Len(sub) : s[i + j] = sub[j]}
    IN  IF hits = {} THEN -1
        ELSE CHOOSE i \in hits : \A k \in hits : i <= k

Contains(s, c) == \E i \in 1 .. Len(s) : s[i] = c

RECURSIVE LStrip(_)
LStrip(s) ==
    IF s # <<>> /\ Head(s) \in Whitespace THEN LStrip(Tail(s)) ELSE s

RECURSIVE RStrip(_)
RStrip(s) ==
    IF s # <<>> /\ s[Len(s)] \in Whitespace
    THEN RStrip(SubSeq(s, 1, Len(s) - 1))
    ELSE s

\* s.strip()
Strip(s) == RStrip(LStrip(s))

\* s.split(';', 1)[0]
SplitSemi(s) ==
    LET i == Find(s, <<";">>, 0)
    IN  IF i = -1 THEN s ELSE Slice(s, 0, i)

\* s.splitlines(): lines end at "\n", "\r" or "\r\n"; no empty last line
RECURSIVE Splitlines(_)
Splitlines(s) ==
    IF s = <<>> THEN <<>>
    ELSE LET brk == {i \in 1 .. Len(s) : s[i] \in {CR, LF}}
         IN  IF brk = {} THEN <<s>>
             ELSE LET i == CHOOSE k \in brk : \A m \in brk : k <= m
                      n == IF s[i] = CR /\ i < Len(s) /\ s[i + 1] = LF
                           THEN i + 1 ELSE i
                  IN  <<SubSeq(s, 1, i - 1)>>
                        \o Splitlines(SubSeq(s, n + 1, Len(s)))

\* "\n".join(lines)
RECURSIVE Join(_)
Join(ls) ==
    IF ls = <<>> THEN <<>>
    ELSE IF Len(ls) = 1 THEN ls[1]
    ELSE ls[1] \o <<LF>> \o Join(Tail(ls))

HexValue(c) ==
    CASE c = "0" -> 0  [] c = "1" -> 1  [] c = "2" -> 2  [] c = "3" -> 3
      [] c = "4" -> 4  [] c = "5" -> 5  [] c = "6" -> 6  [] c = "7" -> 7
      [] c = "8" -> 8  [] c = "9" -> 9
      [] c \in {"a", "A"} -> 10  [] c \in {"b", "B"} -> 11
      [] c \in {"c", "C"} -> 12  [] c \in {"d", "D"} -> 13
      [] c \in {"e", "E"} -> 14  [] c \in {"f", "F"} -> 15
      [] OTHER -> 0

RECURSIVE DigitsValue(_, _)
DigitsValue(s, acc) ==
    IF s = <<>> THEN acc
    ELSE IF Head(s) = "_" THEN DigitsValue(Tail(s), acc)
    ELSE DigitsValue(Tail(s), acc * 16 + HexValue(Head(s)))

\* int(s, 16): white space around the number, a sign, a 0x prefix and single
\* underscores between digits are accepted; anything else is a ValueError
IntBase16(s) ==
    LET t == Strip(s)
        signed == t # <<>> /\ t[1] \in {"+", "-"}
        u == IF signed THEN Tail(t) ELSE t
        prefixed == Len(u) >= 2 /\ u[1] = "0" /\ u[2] \in {"x", "X"}
        w == IF prefixed THEN SubSeq(u, 3, Len(u)) ELSE u
        v == IF prefixed /\ w # <<>> /\ w[1] = "_" THEN Tail(w) ELSE w
        valid == /\ v # <<>>
                 /\ v[1] # "_"
                 /\ v[Len(v)] # "_"
                 /\ \A i \in 1 .. Len(v) : v[i] \in HexDigits \cup {"_"}
                 /\ \A i \in 1 .. Len(v) - 1 : ~(v[i] = "_" /\ v[i + 1] = "_")
        n == DigitsValue(v, 0)
    IN  IF ~valid THEN [ok |-> FALSE, value |-> 0]
        ELSE [ok |-> TRUE,
              value |-> IF signed /\ t[1] = "-" THEN 0 - n ELSE n]

\* ------------------------------------------------------------ is_hex_number
\* is_hex_number with the parse nested under the ';' test
is_hex_number_ext_only(s) ==
    IF s = <<>> THEN FALSE
    ELSE Contains(s, ";") /\ IntBase16(SplitSemi(s)).ok

is_hex_number(s) ==
    IF s = <<>> THEN FALSE
    ELSE IntBase16(SplitSemi(s)).ok

\* ------------------------------------------------------------- json.loads
DecDigits == {"0", "1", "2", "3", "4", "5", "6", "7", "8", "9"}

\* the JSON values that can be written with the characters of the model:
\* an empty object, and an integer without fraction or exponent
IsJsonObject(s) ==
    /\ Len(s) >= 2
    /\ s[1] = "{"
    /\ s[Len(s)] = "}"
    /\ \A i \in 2 .. Len(s) - 1 : s[i] \in {" ", "\t", "\n", "\r"}

IsJsonNumber(s) ==
    LET d == IF s # <<>> /\ s[1] = "-" THEN Tail(s) ELSE s
    IN  /\ d # <<>>
        /\ \A i \in 1 .. Len(d) : d[i] \in DecDigits
        /\ (Len(d) > 1 => d[1] # "0")

\* json.loads(line) returns a value rather than raising JSONDecodeError
json_loads_ok(line) ==
    LET s == Strip(line)
    IN  IsJsonObject(s) \/ IsJsonNumber(s)

\* --------------------------------------------------------- the store's side
\* what an HTTP/1.1 server puts on the wire for a chunked body
HexDigitOf(n) ==
    <<"0", "1", "2", "3", "4", "5", "6", "7",
      "8", "9", "a", "b", "c", "d", "e", "f">>[n + 1]

RECURSIVE HexStr(_)
HexStr(n) ==
    IF n < 16 THEN <<HexDigitOf(n)>>
    ELSE HexStr(n \div 16) \o <<HexDigitOf(n % 16)>>

RECURSIVE EncodeChunked(_)
EncodeChunked(cs) ==
    IF cs = <<>> THEN <<"0">> \o CRLFCRLF
    ELSE HexStr(Len(Head(cs))) \o CRLF \o Head(cs) \o CRLF
           \o EncodeChunked(Tail(cs))

\* the chunks of a response that is still open: no last chunk yet
RECURSIVE EncodeOpen(_)
EncodeOpen(cs) ==
    IF cs = <<>> THEN <<>>
    ELSE HexStr(Len(Head(cs))) \o CRLF \o Head(cs) \o CRLF
           \o EncodeOpen(Tail(cs))

RECURSIVE Concat(_)
Concat(cs) ==
    IF cs = <<>> THEN <<>> ELSE Head(cs) \o Concat(Tail(cs))

ResponseHeader(chunked) ==
    IF chunked THEN <<"H">> \o CRLF \o <<"T">> ELSE <<"H">>

\* the payload characters of the chunked bodies that are explored
PayloadChar == {"{", "}", "1", LF, CR}

SeqsUpTo(S, n) == UNION {[1 .. k -> S] : k \in 0 .. n}

ChunkData == SeqsUpTo(PayloadChar, MaxChunkLen) \ {<<>>}

ChunkLists == SeqsUpTo(ChunkData, MaxChunks)

\* ----------------------------------------------------- frames and options
XS_CONTEXT_SYSTEM == "0000000000000000000000000"

\* an optional value: None, or a set holding the value
None == {}
Some(x) == {x}
The(o) == CHOOSE x \in o : TRUE

\* the IDs the store assigns, in the order it assigns them
FrameIds == <<"f1", "f2", "f3", "f4", "f5", "f6">>

\* an ID no frame has
UnknownId == "ffff"

NoMeta == [name |-> None, updates |-> None]

IdIndex(id) ==
    IF \E k \in 1 .. Len(FrameIds) : FrameIds[k] = id
    THEN CHOOSE k \in 1 .. Len(FrameIds) : FrameIds[k] = id
    ELSE 0

\* str(n) for the numbers of the model
ToStr(n) == <<"0", "1", "2", "3", "4", "5", "6">>[n + 1]

FromStr(t) ==
    IF \E n \in 0 .. 6 : ToStr(n) = t
    THEN CHOOSE n \in 0 .. 6 : ToStr(n) = t
    ELSE 0

NoOptions ==
    [follow |-> FALSE, tail |-> FALSE, all |-> FALSE, last_id |-> None,
     limit |-> None, pulse |-> None, context |-> None]

\* the truth value Python gives an optional string or number
TruthyStr(o) == o # None /\ The(o) # ""

TruthyInt(o) == o # None /\ The(o) # 0

\* _cat(), lines 169-187: the query parameters, in the order they are added
CatParams(options) ==
    (IF options.follow THEN <<[k |-> "follow", v |-> "true"]>> ELSE <<>>)
    \o (IF options.tail THEN <<[k |-> "tail", v |-> "true"]>> ELSE <<>>)
    \o (IF options.all THEN <<[k |-> "all", v |-> "true"]>> ELSE <<>>)
    \o (IF TruthyStr(options.last_id)
        THEN <<[k |-> "last_id", v |-> The(options.last_id)]>> ELSE <<>>)
    \o (IF TruthyInt(options.limit)
        THEN <<[k |-> "limit", v |-> ToStr(The(options.limit))]>> ELSE <<>>)
    \o (IF TruthyInt(options.pulse)
        THEN <<[k |-> "pulse", v |-> ToStr(The(options.pulse))]>> ELSE <<>>)
    \o (IF TruthyStr(options.context)
        THEN <<[k |-> "context", v |-> The(options.context)]>> ELSE <<>>)

\* the value of the first parameter named key, if any
Param(params, key) ==
    LET hits == {i \in 1 .. Len(params) : params[i].k = key}
    IN  IF hits = {} THEN None
        ELSE Some(params[CHOOSE i \in hits : \A j \in hits : i <= j].v)

\* ------------------------------------------------------------- the store
\* The store is not part of xs.py: what follows is the store as the
\* specification describes it.

\* the frames a listing request is scoped to
InScope(f, params) ==
    IF Param(params, "all") # None THEN TRUE
    ELSE IF Param(params, "context") # None
    THEN f.context_id = The(Param(params, "context"))
    ELSE f.context_id = XS_CONTEXT_SYSTEM

RECURSIVE Select(_, _)
Select(frames, params) ==
    IF frames = <<>> THEN <<>>
    ELSE (IF InScope(Head(frames), params) THEN <<Head(frames)>> ELSE <<>>)
           \o Select(Tail(frames), params)

\* how many frames of the log a read skips: all of them with tail, those up
\* to last_id with last_id, none otherwise
StartAfter(log, params) ==
    IF Param(params, "tail") # None THEN Len(log)
    ELSE IF Param(params, "last_id") # None
    THEN Min(IdIndex(The(Param(params, "last_id"))), Len(log))
    ELSE 0

\* the body of a listing response without follow
ServeCat(log, params) ==
    LET from == StartAfter(log, params)
        sel == Select(SubSeq(log, from + 1, Len(log)), params)
    IN  IF Param(params, "limit") # None
        THEN SubSeq(sel, 1, Min(FromStr(The(Param(params, "limit"))), Len(sel)))
        ELSE sel

\* the hash the store gives a content; an empty content has none
HashOf(c) == IF c = "" THEN None ELSE Some("h-" \o c)

\* the frame an append request creates
ServeAppend(log, topic, params, meta, c) ==
    [id |-> FrameIds[Len(log) + 1],
     topic |-> topic,
     context_id |-> IF Param(params, "context") # None
                    THEN The(Param(params, "context"))
                    ELSE XS_CONTEXT_SYSTEM,
     meta |-> meta,
     hash |-> HashOf(c)]

\* the head frame of a topic within the scope of the request
ServeHead(log, topic, params) ==
    LET hits == {i \in 1 .. Len(log) :
                    log[i].topic = topic /\ InScope(log[i], params)}
    IN  IF hits = {} THEN None
        ELSE Some(log[CHOOSE i \in hits : \A j \in hits : j <= i])

\* --------------------------------------------------------- _cat, no follow
Request(method, path, params, headers) ==
    [method |-> method, path |-> path, params |-> params, headers |-> headers]

\* lines 167-218 without follow: one request; a failure of the connection is
\* printed and ends the sequence
_cat(options, log, fail) ==
    LET req == Request("GET", "", CatParams(options), {})
    IN  IF fail
        THEN [frames |-> <<>>, sent |-> <<>>, failed |-> TRUE]
        ELSE [frames |-> ServeCat(log, req.params), sent |-> <<req>>,
              failed |-> FALSE]

\* ------------------------------------------------------ xs_context_collect
HasKey(contexts, id) == \E i \in 1 .. Len(contexts) : contexts[i].id = id

\* contexts[id] = name on a dict that keeps insertion order
Put(contexts, id, name) ==
    IF HasKey(contexts, id)
    THEN [i \in 1 .. Len(contexts) |->
            IF contexts[i].id = id THEN [id |-> id, name |-> name]
            ELSE contexts[i]]
    ELSE Append(contexts, [id |-> id, name |-> name])

\* the fold step with the membership test of line 340 left out
CollectStepNoMembership(contexts, frame) ==
    IF frame.topic = "xs.context"
    THEN IF frame.meta.name # None
         THEN Put(contexts, frame.id, The(frame.meta.name))
         ELSE contexts
    ELSE IF frame.topic = "xs.annotate"
    THEN IF frame.meta.updates # None /\ frame.meta.name # None
         THEN Put(contexts, The(frame.meta.updates), The(frame.meta.name))
         ELSE contexts
    ELSE contexts

\* lines 330-341: what one frame does to the table
CollectStep(contexts, frame) ==
    IF frame.topic = "xs.context"
    THEN IF frame.meta.name # None
         THEN Put(contexts, frame.id, The(frame.meta.name))
         ELSE contexts
    ELSE IF frame.topic = "xs.annotate"
    THEN IF /\ frame.meta.updates # None
            /\ frame.meta.name # None
            /\ HasKey(contexts, The(frame.meta.updates))
         THEN Put(contexts, The(frame.meta.updates), The(frame.meta.name))
         ELSE contexts
    ELSE contexts

RECURSIVE CollectFold(_, _)
CollectFold(contexts, frames) ==
    IF frames = <<>> THEN contexts
    ELSE CollectFold(CollectStep(contexts, Head(frames)), Tail(frames))

\* lines 328-345: the table folded from what _cat yielded
Collected(r) ==
    [table |-> CollectFold(<<[id |-> XS_CONTEXT_SYSTEM, name |-> "system"]>>,
                           r.frames),
     stream |-> r.frames,
     sent |-> r.sent,
     failed |-> r.failed]

\* lines 322-345
xs_context_collect(log, fail) ==
    Collected(_cat([NoOptions EXCEPT !.context = Some(XS_CONTEXT_SYSTEM)],
                   log, fail))

\* -------------------------------------------------------------- xs_context
\* the lookup with the test on the name left out
RECURSIVE FirstMatchIdOnly(_, _)
FirstMatchIdOnly(contexts, selected) ==
    IF contexts = <<>> THEN None
    ELSE IF Head(contexts).id = selected THEN Some(Head(contexts).id)
    ELSE FirstMatchIdOnly(Tail(contexts), selected)

\* lines 354-356: the loop over the table
RECURSIVE FirstMatch(_, _)
FirstMatch(contexts, selected) ==
    IF contexts = <<>> THEN None
    ELSE IF Head(contexts).id = selected \/ Head(contexts).name = selected
    THEN Some(Head(contexts).id)
    ELSE FirstMatch(Tail(contexts), selected)

EnvGet(env) == IF env = None THEN XS_CONTEXT_SYSTEM ELSE The(env)

\* lines 356-358: the ID the loop found, or the error
Found(c, m) ==
    [value |-> m,
     raised |-> IF m = None THEN "ValueError" ELSE "none",
     sent |-> c.sent, failed |-> c.failed, table |-> c.table,
     stream |-> c.stream, collected |-> TRUE]

\* lines 353-358: the lookup in the collected table c
Lookup(c, selected) == Found(c, FirstMatch(c.table, selected))

\* lines 348-358
xs_context(selected, env, log, fail) ==
    IF selected = None
    THEN [value |-> Some(EnvGet(env)), raised |-> "none", sent |-> <<>>,
          failed |-> FALSE, table |-> <<>>, stream |-> <<>>,
          collected |-> FALSE]
    ELSE Lookup(xs_context_collect(log, fail), The(selected))

\* -------------------------------------------------------------------- state
VARIABLES
    response_text,  \* request(): the decoded response
    chunks,         \* the chunk data the store sent, <<>> when not chunked
    rpc,            \* request(), _cat(): where the call is
    body,           \* request(): the text after the header block
    pos,            \* request(): the read position of the chunk loop
    lines,          \* request(): the lines collected by the chunk loop
    content,        \* _cat(): what request() returned
    yielded,        \* _cat(), _cat_stream(): the lines yielded as frames
    mode,           \* "cat": request() and _cat(); "live": _cat_stream()
    buffer,         \* _cat_stream(): bytes received and not yet processed
    header_received,\* _cat_stream(): the header block has been dropped
    rcvd,           \* how much of the response the socket has handed over
    store,          \* the store: its frame log, in append order
    XS_CONTEXT,     \* os.environ["XS_CONTEXT"], None while unset
    op,             \* the last call of the facade and how it ended
    sess,           \* cat(follow=True): the generator and what it yielded
    disk,           \* export(), import_store(): the directory at path
    target,         \* import_store(): the store the import is sent to
    net             \* request(), _cat_stream(): the sockets, and where each
                    \* of the two calls is

liveVars == <<buffer, header_received, rcvd>>

textVars == <<response_text, chunks, rpc, body, pos, lines, content, yielded,
              mode, buffer, header_received, rcvd>>

NoOp ==
    [kind |-> "none", selected |-> None, options |-> NoOptions,
     sent |-> <<>>, connFailed |-> FALSE, raised |-> "none",
     frames |-> <<>>, table |-> <<>>, stream |-> <<>>, collected |-> FALSE,
     value |-> None, before |-> None]

NoSession ==
    [state |-> "idle", transport |-> "unix", options |-> NoOptions,
     live |-> <<>>, backlog |-> <<>>, cursor |-> 0, existing_frames |-> <<>>,
     out |-> <<>>, raised |-> "none", before |-> 0,
     call |-> NoOptions, resolve |-> <<>>, end |-> "none"]

\* the directory before export() has made it
NoDisk == [exists |-> FALSE, failed |-> FALSE, frames |-> <<>>, cas |-> {}]

\* a store that holds nothing
NoTarget == [log |-> <<>>, cas |-> {}]

\* no socket yet, and neither request() nor _cat_stream() under way
NoNet ==
    [rq |-> "idle", st |-> "idle", calls |-> 0, request |-> 0, stream |-> 0,
     socks |-> <<>>]

fileVars == <<disk, target>>

clientVars == <<store, XS_CONTEXT, op, sess, disk, target, net>>

\* what the calls of the facade other than a follow leave alone
restVars == <<response_text, chunks, rpc, body, pos, lines, content, yielded,
              mode, buffer, header_received, rcvd, sess, disk, target, net>>

vars == <<response_text, chunks, rpc, body, pos, lines, content, yielded,
          mode, buffer, header_received, rcvd, store, XS_CONTEXT, op, sess,
          disk, target, net>>

TextInit ==
    /\ response_text = <<>>
    /\ chunks = <<>>
    /\ rpc = "idle"
    /\ body = <<>>
    /\ pos = 0
    /\ lines = <<>>
    /\ content = <<>>
    /\ yielded = <<>>
    /\ mode = "cat"
    /\ buffer = <<>>
    /\ header_received = FALSE
    /\ rcvd = 0

ClientInit ==
    /\ store = <<>>
    /\ XS_CONTEXT = None
    /\ op = NoOp
    /\ sess = NoSession
    /\ disk = NoDisk
    /\ target = NoTarget
    /\ net = NoNet

\* ------------------------------------------------------- request(), socket
\* request() with the test of line 112 left out: every body goes through
\* the chunk loop
RequestSplitAlwaysChunked ==
    /\ rpc = "recv"
    /\ LET header_end == Find(response_text, CRLFCRLF, 0)
           b == SliceFrom(response_text, header_end + 4)
       IN  IF header_end = -1
           THEN /\ content' = response_text
                /\ rpc' = "returned"
                /\ UNCHANGED <<body, pos, lines>>
           ELSE /\ body' = b
                /\ lines' = <<>>
                /\ pos' = 0
                /\ rpc' = "loop"
                /\ UNCHANGED content
    /\ UNCHANGED <<response_text, chunks, yielded, mode, liveVars, clientVars>>

\* lines 100-115, 151-153: split the response and pick the decoding
RequestSplit ==
    /\ rpc = "recv"
    /\ LET header_end == Find(response_text, CRLFCRLF, 0)
           headers_text == Slice(response_text, 0, header_end)
           b == SliceFrom(response_text, header_end + 4)
       IN  IF header_end = -1
           THEN /\ content' = response_text
                /\ rpc' = "returned"
                /\ UNCHANGED <<body, pos, lines>>
           ELSE IF Contains(headers_text, "T")
           THEN /\ body' = b
                /\ lines' = <<>>
                /\ pos' = 0
                /\ rpc' = "loop"
                /\ UNCHANGED content
           ELSE /\ body' = b
                /\ content' = b
                /\ rpc' = "returned"
                /\ UNCHANGED <<pos, lines>>
    /\ UNCHANGED <<response_text, chunks, yielded, mode, liveVars, clientVars>>

\* lines 117-150: one evaluation of the while condition at position p of
\* body b and, when it holds, one pass through the loop body: whether the
\* loop is left, whether the size line parsed, the position after the pass
\* and the lines the pass adds
ChunkPass(b, p) ==
    LET chunk_size_end == Find(b, CRLF, p)
        chunk_size_line == SplitSemi(Strip(Slice(b, p, chunk_size_end)))
        parsed == IntBase16(chunk_size_line)
        chunk_size == parsed.value
        data_pos == chunk_size_end + 2
        chunk_data == Slice(b, data_pos, data_pos + chunk_size)
    IN  IF ~(p < Len(b)) \/ chunk_size_end = -1
        THEN [leaves |-> TRUE, parsed |-> FALSE, pos |-> p,
              chunk_lines |-> <<>>]
        ELSE IF ~parsed.ok
        THEN [leaves |-> FALSE, parsed |-> FALSE, pos |-> p + 1,
              chunk_lines |-> <<>>]
        ELSE IF chunk_size = 0
        THEN [leaves |-> TRUE, parsed |-> TRUE, pos |-> p,
              chunk_lines |-> <<>>]
        ELSE [leaves |-> FALSE, parsed |-> TRUE,
              pos |-> data_pos + chunk_size + 2,
              chunk_lines |-> Splitlines(chunk_data)]

\* lines 117-150: one pass of the loop; leaving the loop returns the joined
\* lines
ChunkLoop ==
    /\ rpc = "loop"
    /\ \E r \in {ChunkPass(body, pos)} :
          IF r.leaves
          THEN /\ content' = Join(lines)
               /\ rpc' = "returned"
               /\ UNCHANGED <<pos, lines>>
          ELSE /\ pos' = r.pos
               /\ lines' = lines \o r.chunk_lines
               /\ UNCHANGED <<content, rpc>>
    /\ UNCHANGED <<response_text, chunks, body, yielded, mode, liveVars,
                   clientVars>>

\* ----------------------------------------------------------- _cat(), lines
\* lines 204-215: the frames of a body, in order
RECURSIVE CatLines(_)
CatLines(ls) ==
    IF ls = <<>> THEN <<>>
    ELSE LET line == Strip(Head(ls))
         IN  IF line = <<>> \/ is_hex_number(line) THEN CatLines(Tail(ls))
             ELSE IF json_loads_ok(line) THEN <<line>> \o CatLines(Tail(ls))
             ELSE CatLines(Tail(ls))

\* lines 202-215: _cat() reads what request() returned
CatRead ==
    /\ rpc = "returned"
    /\ yielded' = CatLines(Splitlines(content))
    /\ rpc' = "done"
    /\ UNCHANGED <<response_text, chunks, body, pos, lines, content, mode,
                   liveVars, clientVars>>

\* ----------------------------------- a non-follow read of a chunked response
InitChunked ==
    /\ chunks \in ChunkLists
    /\ response_text = ResponseHeader(TRUE) \o CRLFCRLF \o EncodeChunked(chunks)
    /\ rpc = "recv"
    /\ body = <<>>
    /\ pos = 0
    /\ lines = <<>>
    /\ content = <<>>
    /\ yielded = <<>>
    /\ mode = "cat"
    /\ buffer = <<>>
    /\ header_received = FALSE
    /\ rcvd = 0
    /\ ClientInit

NextChunked == RequestSplit \/ ChunkLoop \/ CatRead

SpecChunked == InitChunked /\ [][NextChunked]_vars

\* --------------------------------- a read of a response with any framing
\* what a body is made of: a sign, a digit, a character that is no digit and
\* the line end
FramingToken == {<<"-">>, <<"6">>, <<"x">>, CRLF}

FramedBodies == {Concat(ts) : ts \in SeqsUpTo(FramingToken, MaxFraming)}

InitFramed ==
    /\ chunks = <<>>
    /\ \E b \in FramedBodies, chunked \in BOOLEAN :
          response_text = ResponseHeader(chunked) \o CRLFCRLF \o b
    /\ rpc = "recv"
    /\ body = <<>>
    /\ pos = 0
    /\ lines = <<>>
    /\ content = <<>>
    /\ yielded = <<>>
    /\ mode = "cat"
    /\ buffer = <<>>
    /\ header_received = FALSE
    /\ rcvd = 0
    /\ ClientInit

\* the loop is followed while it has collected at most MaxLines lines
NextFramed ==
    \/ RequestSplit
    \/ Len(lines) <= MaxLines /\ ChunkLoop
    \/ CatRead

SpecFramed == InitFramed /\ [][NextFramed]_vars

\* ------------------------------------------------- _cat_stream(), live phase
\* lines 276-287: the complete lines of the buffer, in order; what follows
\* the last "\n" stays in the buffer
RECURSIVE StreamLines(_)
StreamLines(buf) ==
    LET line_end == Find(buf, <<LF>>, 0)
    IN  IF line_end = -1 THEN [buffer |-> buf, out |-> <<>>]
        ELSE LET line == Strip(Slice(buf, 0, line_end))
                 rest == StreamLines(SliceFrom(buf, line_end + 1))
             IN  IF line = <<>> \/ is_hex_number(line) THEN rest
                 ELSE IF json_loads_ok(line)
                 THEN [rest EXCEPT !.out = <<line>> \o @]
                 ELSE rest

\* lines 263-287: recv() hands over the next k bytes of the response
LiveRecv(k) ==
    /\ rpc = "live"
    /\ rcvd + k <= Len(response_text)
    /\ LET chunk == SubSeq(response_text, rcvd + 1, rcvd + k)
           buf1 == buffer \o chunk
           header_end == Find(buf1, CRLFCRLF, 0)
           strip_header == ~header_received /\ header_end # -1
           buf2 == IF strip_header THEN SliceFrom(buf1, header_end + 4)
                   ELSE buf1
           r == StreamLines(buf2)
       IN  /\ header_received' = (header_received \/ strip_header)
           /\ buffer' = r.buffer
           /\ yielded' = yielded \o r.out
    /\ rcvd' = rcvd + k
    /\ UNCHANGED <<response_text, chunks, rpc, body, pos, lines, content,
                   mode, clientVars>>

\* lines 263-265, 291-292: recv() returns no bytes once the peer has closed
LiveClose ==
    /\ rpc = "live"
    /\ rcvd = Len(response_text)
    /\ rpc' = "closed"
    /\ UNCHANGED <<response_text, chunks, body, pos, lines, content, yielded,
                   mode, liveVars, clientVars>>

\* ------------------------------------- reads of a body of arbitrary lines
LineChar == {"1", "a", "{", "}", ";", LF}

InitReader ==
    /\ mode \in {"cat", "live"}
    /\ \E b \in SeqsUpTo(LineChar, MaxBody), chunked \in BOOLEAN :
          /\ (mode = "live" => chunked)
          /\ chunks = IF chunked /\ b # <<>> THEN <<b>> ELSE <<>>
          /\ response_text =
                ResponseHeader(chunked) \o CRLFCRLF \o
                  (IF ~chunked THEN b
                   ELSE IF mode = "live" THEN EncodeOpen(chunks)
                   ELSE EncodeChunked(chunks))
    /\ rpc = IF mode = "cat" THEN "recv" ELSE "live"
    /\ body = <<>>
    /\ pos = 0
    /\ lines = <<>>
    /\ content = <<>>
    /\ yielded = <<>>
    /\ buffer = <<>>
    /\ header_received = FALSE
    /\ rcvd = 0
    /\ ClientInit

NextReader ==
    \/ RequestSplit
    \/ ChunkLoop
    \/ CatRead
    \/ \E k \in 1 .. (MaxBody + 13) : LiveRecv(k)
    \/ LiveClose

SpecReader == InitReader /\ [][NextReader]_vars

\* -------------------------------------------------------------- the facade
Last(sq) == sq[Len(sq)]

NoResolve ==
    [value |-> None, raised |-> "none", sent |-> <<>>, failed |-> FALSE,
     table |-> <<>>, stream |-> <<>>, collected |-> FALSE]

\* what a call leaves in op once a context has been looked up
Resolved(kind, r) ==
    [NoOp EXCEPT !.kind = kind, !.sent = r.sent, !.connFailed = r.failed,
                 !.raised = r.raised, !.table = r.table, !.stream = r.stream,
                 !.collected = r.collected, !.value = r.value]

\* XS.cat with the test on all left out of line 382
CatResolvesUnderAll(options, f1, f2) ==
    /\ ~options.follow
    /\ \E r \in {IF options.context # None
                 THEN xs_context(options.context, XS_CONTEXT, store, f1)
                 ELSE NoResolve} :
       \E c \in {_cat([options EXCEPT !.context = r.value], store, f2)} :
           op' = IF r.raised # "none"
                 THEN [Resolved("cat", r) EXCEPT !.options = options]
                 ELSE [Resolved("cat", r) EXCEPT
                         !.options = options,
                         !.sent = r.sent \o c.sent,
                         !.connFailed = r.failed \/ c.failed,
                         !.frames = c.frames,
                         !.value = None]
    /\ UNCHANGED <<store, XS_CONTEXT, restVars>>

\* XS.cat, lines 381-393, without follow
Cat(options, f1, f2) ==
    /\ ~options.follow
    /\ \E r \in {IF ~options.all /\ options.context # None
                 THEN xs_context(options.context, XS_CONTEXT, store, f1)
                 ELSE NoResolve} :
       \E c \in {_cat([options EXCEPT !.context = r.value], store, f2)} :
           op' = IF r.raised # "none"
                 THEN [Resolved("cat", r) EXCEPT !.options = options]
                 ELSE [Resolved("cat", r) EXCEPT
                         !.options = options,
                         !.sent = r.sent \o c.sent,
                         !.connFailed = r.failed \/ c.failed,
                         !.frames = c.frames,
                         !.value = None]
    /\ UNCHANGED <<store, XS_CONTEXT, restVars>>

\* XS.head, lines 446-459, without follow
HeadCall(topic, context, f1, f2) ==
    /\ \E r \in {IF context # None
                 THEN xs_context(context, XS_CONTEXT, store, f1)
                 ELSE NoResolve} :
       LET params == IF context # None /\ r.value # None
                     THEN <<[k |-> "context", v |-> The(r.value)]>>
                     ELSE <<>>
           req == Request("GET", "head/" \o topic, params, {})
           resp == ServeHead(store, topic, params)
           base == [Resolved("head", r) EXCEPT !.options.context = context]
       IN  op' = IF r.raised # "none" THEN base
                 ELSE IF f2
                 THEN [base EXCEPT !.connFailed = TRUE,
                                   !.raised = "ConnectionError",
                                   !.value = None]
                 ELSE [base EXCEPT
                         !.sent = r.sent \o <<req>>,
                         !.raised = IF resp = None THEN "JSONDecodeError"
                                    ELSE "none",
                         !.frames = IF resp = None THEN <<>> ELSE <<The(resp)>>,
                         !.value = None]
    /\ UNCHANGED <<store, XS_CONTEXT, restVars>>

\* XS.append, lines 484-499, once the context has been looked up with
\* answer r: what the call sent and the log it leaves
AppendSend(topic, c, meta, context, ttl, log, f2, r) ==
    LET params == (IF ttl # None THEN <<[k |-> "ttl", v |-> The(ttl)]>>
                   ELSE <<>>)
                  \o (IF context # None /\ r.value # None
                      THEN <<[k |-> "context", v |-> The(r.value)]>>
                      ELSE <<>>)
        req == Request("POST", topic, params,
                       IF meta # NoMeta THEN {"xs-meta"} ELSE {})
        frame == ServeAppend(log, topic, params, meta, c)
    IN  IF r.raised # "none"
        THEN [raised |-> r.raised, sent |-> r.sent, failed |-> r.failed,
              frame |-> None, log |-> log]
        ELSE IF f2
        THEN [raised |-> "ConnectionError", sent |-> r.sent, failed |-> TRUE,
              frame |-> None, log |-> log]
        ELSE [raised |-> "none", sent |-> r.sent \o <<req>>,
              failed |-> r.failed, frame |-> Some(frame),
              log |-> Append(log, frame)]

\* XS.append, lines 481-499
AppendCall(topic, c, meta, context, ttl, env, log, f1, f2) ==
    AppendSend(topic, c, meta, context, ttl, log, f2,
               IF context # None THEN xs_context(context, env, log, f1)
               ELSE NoResolve)

AppendOp(topic, c, meta, context, f1, f2) ==
    /\ \E a \in {AppendCall(topic, c, meta, context, None, XS_CONTEXT, store,
                            f1, f2)} :
           /\ store' = a.log
           /\ op' = [NoOp EXCEPT
                       !.kind = "append", !.options.context = context,
                       !.sent = a.sent, !.connFailed = a.failed,
                       !.raised = a.raised,
                       !.frames = IF a.frame = None THEN <<>>
                                  ELSE <<The(a.frame)>>]
    /\ UNCHANGED <<XS_CONTEXT, restVars>>

\* the call xs_context(selected) on its own
Resolve(selected, f1) ==
    /\ \E r \in {xs_context(Some(selected), XS_CONTEXT, store, f1)} :
          op' = [Resolved("resolve", r) EXCEPT !.selected = Some(selected)]
    /\ UNCHANGED <<store, XS_CONTEXT, restVars>>

\* the call xs_context(None), lines 350-351
ResolveCurrent ==
    /\ \E r \in {xs_context(None, XS_CONTEXT, store, FALSE)} :
          op' = [Resolved("resolve", r) EXCEPT
                   !.before = Some(EnvGet(XS_CONTEXT))]
    /\ UNCHANGED <<store, XS_CONTEXT, restVars>>

\* XS.Ctx.get, lines 518-520
CtxGet ==
    /\ op' = [NoOp EXCEPT !.kind = "get", !.value = Some(EnvGet(XS_CONTEXT)),
                          !.before = Some(EnvGet(XS_CONTEXT))]
    /\ UNCHANGED <<store, XS_CONTEXT, restVars>>

\* XS.Ctx.list, lines 523-529
CtxList(f1) ==
    /\ \E c \in {xs_context_collect(store, f1)} :
       LET active == EnvGet(XS_CONTEXT)
       IN  op' = [NoOp EXCEPT
                    !.kind = "list", !.sent = c.sent, !.connFailed = c.failed,
                    !.table = c.table, !.stream = c.stream,
                    !.collected = TRUE,
                    !.frames = [i \in 1 .. Len(c.table) |->
                                  [id |-> c.table[i].id,
                                   name |-> c.table[i].name,
                                   active |-> c.table[i].id = active]]]
    /\ UNCHANGED <<store, XS_CONTEXT, restVars>>

\* XS.Ctx.switch with the selection assigned before the lookup has returned
SwitchedEvenOnFailure(r, env) == [r |-> r, env |-> r.value]

\* XS.Ctx.switch, lines 547-553: the call and the selection it leaves
Switched(r, env) ==
    IF r.raised # "none" THEN [r |-> r, env |-> env]
    ELSE [r |-> r, env |-> r.value]

SwitchCall(id, env, log, f1) ==
    IF id = None
    THEN [r |-> [NoResolve EXCEPT !.value = Some(EnvGet(env))], env |-> env]
    ELSE Switched(xs_context(id, env, log, f1), env)

CtxSwitch(id, f1) ==
    /\ \E sw \in {SwitchCall(id, XS_CONTEXT, store, f1)} :
           /\ XS_CONTEXT' = sw.env
           /\ op' = [Resolved("switch", sw.r) EXCEPT
                       !.selected = id,
                       !.before = Some(EnvGet(XS_CONTEXT)),
                       !.value = IF sw.r.raised # "none" THEN None
                                 ELSE Some(EnvGet(sw.env))]
    /\ UNCHANGED <<store, restVars>>

\* XS.Ctx.new, lines 566-567
CtxNew(name, f1, f2, f3) ==
    /\ \E a \in {AppendCall("xs.context", "",
                            [name |-> Some(name), updates |-> None],
                            Some(XS_CONTEXT_SYSTEM), None, XS_CONTEXT, store,
                            f1, f2)} :
       \E sw \in {SwitchCall(IF a.frame = None THEN None
                             ELSE Some(The(a.frame).id),
                             XS_CONTEXT, a.log, f3)} :
           IF a.raised # "none"
           THEN /\ op' = [NoOp EXCEPT
                            !.kind = "new", !.selected = Some(name),
                            !.sent = a.sent, !.connFailed = a.failed,
                            !.raised = a.raised,
                            !.before = Some(EnvGet(XS_CONTEXT))]
                /\ UNCHANGED <<store, XS_CONTEXT>>
           ELSE /\ store' = a.log
                /\ XS_CONTEXT' = sw.env
                /\ op' = [Resolved("new", sw.r) EXCEPT
                            !.selected = Some(name),
                            !.sent = a.sent \o sw.r.sent,
                            !.connFailed = a.failed \/ sw.r.failed,
                            !.frames = <<The(a.frame)>>,
                            !.before = Some(EnvGet(XS_CONTEXT)),
                            !.value = IF sw.r.raised # "none" THEN None
                                      ELSE Some(EnvGet(sw.env))]
    /\ UNCHANGED restVars

\* XS.Ctx.rename, lines 578-581
CtxRename(id, name, f1, f2, f3) ==
    /\ \E r \in {xs_context(Some(id), XS_CONTEXT, store, f1)} :
       \E a \in {AppendCall("xs.annotate", "",
                            [name |-> Some(name), updates |-> r.value],
                            Some(XS_CONTEXT_SYSTEM), None, XS_CONTEXT, store,
                            f2, f3)} :
           IF r.raised # "none"
           THEN /\ op' = [Resolved("rename", r) EXCEPT !.selected = Some(id)]
                /\ UNCHANGED store
           ELSE /\ store' = a.log
                /\ op' = [Resolved("rename", r) EXCEPT
                            !.selected = Some(id),
                            !.sent = r.sent \o a.sent,
                            !.connFailed = r.failed \/ a.failed,
                            !.raised = a.raised,
                            !.frames = IF a.frame = None THEN <<>>
                                       ELSE <<The(a.frame)>>]
    /\ UNCHANGED <<XS_CONTEXT, restVars>>

\* -------------------------------------------- calls of the facade, in turn
Names == {"a", "b"}

StoreIds == {store[i].id : i \in 1 .. Len(store)}

ContextIds == {store[i].id : i \in {k \in 1 .. Len(store) :
                                       store[k].topic = "xs.context"}}

OptionOf(S) == {None} \cup {Some(x) : x \in S}

\* what a caller may pass where a context is expected: a name that may be
\* in use, an ID, the system context
Selectors == Names \cup ContextIds \cup {XS_CONTEXT_SYSTEM}

Init == TextInit /\ ClientInit

\* the selection and the calls that read it; the store holds at most
\* MaxStore frames
Next ==
    \/ \E f2, f3 \in BOOLEAN :
          Len(store) < MaxStore /\ CtxNew("a", FALSE, f2, f3)
    \/ \E c \in OptionOf(Names), f1, f2 \in BOOLEAN :
          /\ Len(store) < MaxStore
          /\ (f1 => c # None)
          /\ AppendOp("note", "x", NoMeta, c, f1, f2)
    \/ \E x \in OptionOf(Selectors), f1 \in BOOLEAN :
          (f1 => x # None) /\ CtxSwitch(x, f1)
    \/ CtxGet
    \/ ResolveCurrent
    \/ \E a \in BOOLEAN, c \in OptionOf(Names \cup {XS_CONTEXT_SYSTEM}),
          f1, f2 \in BOOLEAN :
          /\ (f1 => ~a /\ c # None)
          /\ Cat([NoOptions EXCEPT !.all = a, !.context = c], f1, f2)
    \/ \E c \in OptionOf(Names), f1, f2 \in BOOLEAN :
          /\ (f1 => c # None)
          /\ HeadCall("note", c, f1, f2)

Spec == Init /\ [][Next]_vars

\* the names a context may be renamed to: any text, an ID included
NewNames == {"b", FrameIds[2]}

\* the context table: frames of the system context and the calls that
\* collect them; the store holds at most MaxStore frames
NextCtx ==
    \/ \E n \in Names :
          /\ Len(store) < MaxStore
          /\ AppendOp("xs.context", "", [name |-> Some(n), updates |-> None],
                      Some(XS_CONTEXT_SYSTEM), FALSE, FALSE)
    \/ /\ Len(store) < MaxStore
       /\ AppendOp("xs.context", "", NoMeta, Some(XS_CONTEXT_SYSTEM),
                   FALSE, FALSE)
    \/ \E u \in ContextIds \cup {UnknownId, XS_CONTEXT_SYSTEM}, n \in NewNames :
          /\ Len(store) < MaxStore
          /\ (u = XS_CONTEXT_SYSTEM => n = "b")
          /\ AppendOp("xs.annotate", "",
                      [name |-> Some(n), updates |-> Some(u)],
                      Some(XS_CONTEXT_SYSTEM), FALSE, FALSE)
    \/ \E x \in ContextIds \cup Names, n \in NewNames :
          /\ Len(store) < MaxStore
          /\ CtxRename(x, n, FALSE, FALSE, FALSE)
    \/ \E x \in Selectors \cup NewNames, f1 \in BOOLEAN : Resolve(x, f1)
    \/ \E f1 \in BOOLEAN : CtxList(f1)

SpecCtx == Init /\ [][NextCtx]_vars

\* ------------------------------------------------------------ follow mode
Accept == {"Accept: text/event-stream"}

\* the position after which a follow request streams: the store sends what
\* the request selects of its log, then what is appended
ServeFollowStart(log, params) == StartAfter(log, params)

\* the positions of the log a follow request has still to deliver
Undelivered(log, params, cursor) ==
    {p \in (cursor + 1) .. Len(log) : InScope(log[p], params)}

\* XS.cat(follow=True), lines 381-393, then _cat, lines 169-198, and
\* _cat_stream up to the request it sends, lines 225-246; over HTTP the
\* request is sent after the backlog, lines 294-305
FollowStart(options, transport, f1, fc) ==
    /\ sess.state = "idle"
    /\ options.follow
    /\ \E r \in {IF ~options.all /\ options.context # None
                 THEN xs_context(options.context, XS_CONTEXT, store, f1)
                 ELSE NoResolve} :
       LET opts == [options EXCEPT !.context = r.value]
           req == Request("GET", "", CatParams(opts), Accept)
           base == [NoSession EXCEPT !.transport = transport,
                                     !.call = options,
                                     !.resolve = r.sent,
                                     !.options = opts,
                                     !.before = Len(store)]
       IN  sess' = IF r.raised # "none"
                   THEN [base EXCEPT !.state = "ended", !.raised = r.raised,
                                     !.options = options]
                   ELSE IF transport = "http"
                   THEN [base EXCEPT !.state = "opened"]
                   ELSE IF fc
                   THEN [base EXCEPT !.state = "ended"]
                   ELSE [base EXCEPT
                           !.state = "opened",
                           !.live = <<req>>,
                           !.cursor = ServeFollowStart(store, req.params)]
    /\ UNCHANGED <<store, XS_CONTEXT, op, textVars, fileVars, net>>

\* lines 253-256 and 296-299: the backlog, read whole before any of it is
\* yielded
FollowBacklog(fb) ==
    /\ sess.state = "opened"
    /\ \E path \in {CatParams(sess.options)} :
       \E b \in {_cat([NoOptions EXCEPT !.context = Param(path, "context")],
                      store, fb)} :
           sess' = [sess EXCEPT !.state = "backlog",
                                !.backlog = b.sent,
                                !.existing_frames = b.frames]
    /\ UNCHANGED <<store, XS_CONTEXT, op, textVars, fileVars, net>>

\* lines 258-259 and 301-302: the next frame of the backlog
FollowYield ==
    /\ sess.state = "backlog"
    /\ sess.existing_frames # <<>>
    /\ sess' = [sess EXCEPT !.existing_frames = Tail(@),
                            !.out = Append(@, Head(sess.existing_frames))]
    /\ UNCHANGED <<store, XS_CONTEXT, op, textVars, fileVars, net>>

\* lines 261-262 and 304-307: the backlog is through; over HTTP the follow
\* request is sent now, and a failure ends the sequence without an error
FollowLive(fc) ==
    /\ sess.state = "backlog"
    /\ sess.existing_frames = <<>>
    /\ LET req == Request("GET", "", CatParams(sess.options), Accept)
       IN  sess' = IF sess.transport = "unix"
                   THEN [sess EXCEPT !.state = "live"]
                   ELSE IF fc
                   THEN [sess EXCEPT !.state = "ended", !.end = "failed"]
                   ELSE [sess EXCEPT
                           !.state = "live",
                           !.live = <<req>>,
                           !.cursor = ServeFollowStart(store, req.params)]
    /\ UNCHANGED <<store, XS_CONTEXT, op, textVars, fileVars, net>>

\* the live phase with a return after the last line the response holds
FollowRecvUntilDrained ==
    /\ sess.state = "live"
    /\ LET todo == Undelivered(store, sess.live[1].params, sess.cursor)
       IN  /\ todo # {}
           /\ LET p == CHOOSE q \in todo : \A m \in todo : q <= m
              IN  sess' = [sess EXCEPT
                             !.cursor = p,
                             !.out = Append(@, store[p]),
                             !.state = IF todo = {p} THEN "ended" ELSE @]
    /\ UNCHANGED <<store, XS_CONTEXT, op, textVars, fileVars, net>>

\* lines 263-287 and 308-316: the next line of the open response is a frame,
\* and it is yielded
FollowRecv ==
    /\ sess.state = "live"
    /\ LET todo == Undelivered(store, sess.live[1].params, sess.cursor)
       IN  /\ todo # {}
           /\ LET p == CHOOSE q \in todo : \A m \in todo : q <= m
              IN  sess' = [sess EXCEPT !.cursor = p,
                                       !.out = Append(@, store[p])]
    /\ UNCHANGED <<store, XS_CONTEXT, op, textVars, fileVars, net>>

\* what ends the sequence: the peer closes the connection, a read on it
\* fails, the consumer drops the generator
EndCauses == {"closed", "failed", "dropped"}

\* lines 264-265, 289-292 and 317-319: recv() returns no bytes, or a read
\* raises, which is printed, or the consumer drops the generator, which it
\* can do wherever the generator has yielded; no error reaches the consumer
FollowEnd(why) ==
    /\ sess.state \in {"backlog", "live"}
    /\ why \in EndCauses
    /\ why \in {"closed", "failed"} => sess.state = "live"
    /\ sess' = [sess EXCEPT !.state = "ended", !.end = why]
    /\ UNCHANGED <<store, XS_CONTEXT, op, textVars, fileVars, net>>

\* another client of the store appends a frame
StoreAppend(topic, c, meta, context) ==
    /\ store' = Append(store,
                       ServeAppend(store, topic,
                                   IF context = None THEN <<>>
                                   ELSE <<[k |-> "context", v |-> The(context)]>>,
                                   meta, c))
    /\ UNCHANGED <<XS_CONTEXT, op, sess, textVars, fileVars, net>>

\* a follow with no option, with each option alone, and with all and a
\* context together
FollowOptions ==
    LET f == [NoOptions EXCEPT !.follow = TRUE]
    IN  {f,
         [f EXCEPT !.tail = TRUE],
         [f EXCEPT !.all = TRUE],
         [f EXCEPT !.last_id = Some(FrameIds[1])],
         [f EXCEPT !.limit = Some(1)],
         [f EXCEPT !.pulse = Some(1)],
         [f EXCEPT !.context = Some("a")],
         [f EXCEPT !.all = TRUE, !.context = Some("a")]}

NextFollow ==
    \/ /\ Len(store) < MaxStore
       /\ StoreAppend("note", "x", NoMeta, None)
    \/ \E c \in ContextIds :
          /\ Len(store) < MaxStore
          /\ StoreAppend("note", "x", NoMeta, Some(c))
    \/ /\ Len(store) < MaxStore
       /\ ContextIds = {}
       /\ StoreAppend("xs.context", "",
                      [name |-> Some("a"), updates |-> None], None)
    \/ \E o \in FollowOptions, t \in {"unix", "http"}, f1, fc \in BOOLEAN :
          /\ (f1 => ~o.all /\ o.context # None)
          /\ (fc => t = "unix")
          /\ FollowStart(o, t, f1, fc)
    \/ \E fb \in BOOLEAN : FollowBacklog(fb)
    \/ FollowYield
    \/ \E fc \in BOOLEAN : (fc => sess.transport = "http") /\ FollowLive(fc)
    \/ FollowRecv
    \/ \E why \in EndCauses : FollowEnd(why)

SpecFollow == Init /\ [][NextFollow]_vars

\* ------------------------------------------------------ new contexts
\* contexts are created, by this client with Ctx.new and by other clients
\* under any name, and listed; the store holds at most MaxStore frames
NextNew ==
    \/ \E n \in NewNames :
          /\ Len(store) < MaxStore
          /\ StoreAppend("xs.context", "",
                         [name |-> Some(n), updates |-> None], None)
    \/ \E f2, f3 \in BOOLEAN :
          Len(store) < MaxStore /\ CtxNew("a", FALSE, f2, f3)
    \/ \E f1 \in BOOLEAN : CtxList(f1)
    \/ CtxGet

SpecNew == Init /\ [][NextNew]_vars

\* ------------------------------------------------- cat, all and context
\* the contexts a caller may name: one in use, one that names nothing, the
\* system context
CatContexts == {"a", "zz", XS_CONTEXT_SYSTEM}

CatOptions ==
    {[NoOptions EXCEPT !.all = a, !.context = c, !.tail = t] :
        a \in BOOLEAN, c \in OptionOf(CatContexts), t \in BOOLEAN}

\* reads of every shape over a store that other clients fill: a run makes
\* reads without follow, or one read with follow (the two share no state);
\* the store holds at most MaxStore frames
NextCat ==
    \/ /\ Len(store) < MaxStore
       /\ StoreAppend("note", "x", NoMeta, None)
    \/ /\ Len(store) < MaxStore
       /\ ContextIds = {}
       /\ StoreAppend("xs.context", "",
                      [name |-> Some("a"), updates |-> None], None)
    \/ \E o \in CatOptions, f1, f2 \in BOOLEAN :
          /\ (f1 => ~o.all /\ o.context # None)
          /\ sess.state = "idle"
          /\ Cat(o, f1, f2)
    \/ \E o \in CatOptions, t \in {"unix", "http"}, f1, fc \in BOOLEAN :
          /\ (f1 => ~o.all /\ o.context # None)
          /\ (fc => t = "unix")
          /\ op.kind = "none"
          /\ FollowStart([o EXCEPT !.follow = TRUE], t, f1, fc)
    \/ \E fb \in BOOLEAN : FollowBacklog(fb)
    \/ \E fc \in BOOLEAN : (fc => sess.transport = "http") /\ FollowLive(fc)
    \/ \E why \in EndCauses : FollowEnd(why)

SpecCat == Init /\ [][NextCat]_vars

\* ------------------------------------------------------ export and import
\* base64.b64encode and base64.b64decode on the text of a hash
B64Alphabet ==
    "ABCDEFGHIJKLMNOPQRSTUVWXYZabcdefghijklmnopqrstuvwxyz0123456789+/"

Upper == "ABCDEFGHIJKLMNOPQRSTUVWXYZ"

Lower == "abcdefghijklmnopqrstuvwxyz"

Digits == "0123456789"

CharAt(s, i) == SubSeq(s, i, i)

IsIn(s, c) == \E i \in 1 .. Len(s) : CharAt(s, i) = c

IndexIn(s, c) == CHOOSE i \in 1 .. Len(s) : CharAt(s, i) = c

\* the byte of a character of a hash: a letter, a digit or "-"
Ord(c) ==
    IF c = "-" THEN 45
    ELSE IF IsIn(Digits, c) THEN 47 + IndexIn(Digits, c)
    ELSE IF IsIn(Upper, c) THEN 64 + IndexIn(Upper, c)
    ELSE 96 + IndexIn(Lower, c)

Chr(n) ==
    IF n = 45 THEN "-"
    ELSE IF n \in 48 .. 57 THEN CharAt(Digits, n - 47)
    ELSE IF n \in 65 .. 90 THEN CharAt(Upper, n - 64)
    ELSE CharAt(Lower, n - 96)

B64Char(n) == CharAt(B64Alphabet, n + 1)

RECURSIVE b64encode(_)
b64encode(s) ==
    IF s = "" THEN ""
    ELSE LET n == Min(Len(s), 3)
             v == Ord(CharAt(s, 1)) * 65536
                  + (IF n >= 2 THEN Ord(CharAt(s, 2)) * 256 ELSE 0)
                  + (IF n >= 3 THEN Ord(CharAt(s, 3)) ELSE 0)
         IN  B64Char(v \div 262144)
             \o B64Char((v \div 4096) % 64)
             \o (IF n >= 2 THEN B64Char((v \div 64) % 64) ELSE "=")
             \o (IF n >= 3 THEN B64Char(v % 64) ELSE "=")
             \o b64encode(SubSeq(s, n + 1, Len(s)))

B64Value(c) == IF c = "=" THEN 0 ELSE IndexIn(B64Alphabet, c) - 1

\* the names export() writes are whole groups of four characters
RECURSIVE b64decode(_)
b64decode(t) ==
    IF Len(t) < 4 THEN ""
    ELSE LET v == B64Value(CharAt(t, 1)) * 262144
                  + B64Value(CharAt(t, 2)) * 4096
                  + B64Value(CharAt(t, 3)) * 64
                  + B64Value(CharAt(t, 4))
         IN  Chr(v \div 65536)
             \o (IF CharAt(t, 3) = "=" THEN "" ELSE Chr((v \div 256) % 256))
             \o (IF CharAt(t, 4) = "=" THEN "" ELSE Chr(v % 256))
             \o b64decode(SubSeq(t, 5, Len(t)))

\* the store: the content a hash addresses, the hash it answers a pushed
\* content with, and the log after an imported frame
ServeCasGet(h) == SubSeq(h, 3, Len(h))

ServeCasPost(c) == "h-" \o c

ServeImport(log, frame) == Append(log, frame)

\* lines 603-609: the hashes of the frames written to frames.jsonl
Hashes(frames) ==
    {The(frames[i].hash) :
        i \in {k \in 1 .. Len(frames) : TruthyStr(frames[k].hash)}}

\* XS.export, lines 591-617.  f1: the listing request is not delivered, which
\* _cat prints and survives; fc: a request for a content is not delivered,
\* which ends the export with the contents written so far
Export(f1, fc) ==
    /\ IF disk.exists
       THEN /\ ~f1 /\ ~fc
            /\ op' = [NoOp EXCEPT !.kind = "export", !.value = Some("path exists")]
            /\ UNCHANGED disk
       ELSE \E r \in {_cat(NoOptions, store, f1)} :
            \E hashes \in {Hashes(r.frames)} :
                \E written \in SUBSET hashes :
                   /\ IF fc THEN written # hashes ELSE written = hashes
                   /\ disk' = [exists |-> TRUE,
                               failed |-> r.failed \/ fc,
                               frames |-> r.frames,
                               cas |-> {[name |-> b64encode(h),
                                         content |-> ServeCasGet(h)] :
                                           h \in written}]
                   /\ op' = [NoOp EXCEPT
                               !.kind = "export", !.sent = r.sent,
                               !.connFailed = r.failed \/ fc,
                               !.raised = IF fc THEN "ConnectionError"
                                          ELSE "none",
                               !.frames = r.frames]
    /\ UNCHANGED <<store, XS_CONTEXT, sess, target, textVars, net>>

\* XS.import_store, lines 628-653.  The files of cas/ come first, in the
\* order glob gives them: the first is pushed, and line 639 then calls read()
\* on the text request() returned.  With no file in cas/ the frames are sent
\* one by one; every frame the store wrote carries its context_id.
\* fc: the first request for a content is not delivered; k: the frames sent
\* before a request is not delivered
Import(fc, k) ==
    /\ IF ~disk.exists
       THEN /\ ~fc /\ k = 0
            /\ op' = [NoOp EXCEPT !.kind = "import",
                                  !.raised = "FileNotFoundError",
                                  !.before = Some(target)]
            /\ UNCHANGED target
       ELSE IF disk.cas # {}
       THEN /\ k = 0
            /\ \E cas_file \in disk.cas :
                  LET hash_value == b64decode(cas_file.name)
                      got == ServeCasPost(cas_file.content)
                  IN  /\ target' = IF fc THEN target
                                   ELSE [target EXCEPT !.cas = @ \cup
                                           {[hash |-> got,
                                             content |-> cas_file.content]}]
                      /\ op' = [NoOp EXCEPT
                                  !.kind = "import",
                                  !.connFailed = fc,
                                  !.raised = IF fc THEN "ConnectionError"
                                             ELSE "AttributeError",
                                  !.value = Some(hash_value),
                                  !.before = Some(target)]
       ELSE /\ ~fc
            /\ k \in 0 .. Len(disk.frames)
            /\ target' = [target EXCEPT
                            !.log = @ \o SubSeq(disk.frames, 1, k)]
            /\ op' = [NoOp EXCEPT
                        !.kind = "import",
                        !.connFailed = k < Len(disk.frames),
                        !.raised = IF k < Len(disk.frames)
                                   THEN "ConnectionError" ELSE "none",
                        !.frames = SubSeq(disk.frames, 1, k),
                        !.before = Some(target)]
    /\ UNCHANGED <<store, XS_CONTEXT, sess, disk, textVars, net>>

Contents == {"", "x", "y"}

\* a store is filled, with and without contents and in two contexts, then
\* exported, and the directory is imported into another store; the store is
\* at rest once it has been exported, and each store holds at most MaxStore
\* frames
NextExport ==
    \/ \E c \in Contents :
          /\ ~disk.exists /\ Len(store) < MaxStore
          /\ StoreAppend("note", c, NoMeta, None)
    \/ \E x \in ContextIds, c \in Contents :
          /\ ~disk.exists /\ Len(store) < MaxStore
          /\ StoreAppend("note", c, NoMeta, Some(x))
    \/ /\ ~disk.exists /\ Len(store) < MaxStore
       /\ ContextIds = {}
       /\ StoreAppend("xs.context", "",
                      [name |-> Some("a"), updates |-> None], None)
    \/ \E f1, fc \in BOOLEAN : Export(f1, fc)
    \/ \E fc \in BOOLEAN, k \in 0 .. MaxStore :
          Len(target.log) + k <= MaxStore /\ Import(fc, k)

SpecExport == Init /\ [][NextExport]_vars

\* ------------------------------------------- the sockets of the transport
\* what the steps of request() and _cat_stream() over a unix socket leave
\* alone
netRest == <<textVars, store, XS_CONTEXT, op, sess, fileVars>>

\* line 62, line 228: socket.socket()
NewSocket(by) == [by |-> by, open |-> TRUE, connects |-> 0, sends |-> 0]

\* the socket of the last call of request()
Current == net.request

\* lines 62-63: request() opens its socket and enters the try
Entered(n) ==
    [n EXCEPT !.rq = "socket", !.calls = @ + 1,
              !.request = Len(n.socks) + 1,
              !.socks = Append(@, NewSocket("request"))]

\* request() is called on its own, not from a follow
ReqSocket ==
    /\ net.rq \in {"idle", "returned", "raised"}
    /\ net.st \in {"idle", "ended"}
    /\ net' = Entered(net)
    /\ UNCHANGED netRest

\* line 64: connect(); a failure is caught at line 155
ReqConnect(ok) ==
    /\ net.rq = "socket"
    /\ net' = IF ok
              THEN [net EXCEPT !.rq = "connected",
                               !.socks[Current].connects = @ + 1]
              ELSE [net EXCEPT !.rq = "except"]
    /\ UNCHANGED netRest

\* lines 66-90: the request is put together and sent, head and data
ReqSend(ok) ==
    /\ net.rq = "connected"
    /\ net' = IF ok
              THEN [net EXCEPT !.rq = "sent", !.socks[Current].sends = @ + 1]
              ELSE [net EXCEPT !.rq = "except"]
    /\ UNCHANGED netRest

\* lines 92-98: the response is read until the peer closes
ReqRecv(ok) ==
    /\ net.rq = "sent"
    /\ net' = [net EXCEPT !.rq = IF ok THEN "received" ELSE "except"]
    /\ UNCHANGED netRest

\* lines 100-153: the response is decoded, which returns a body, raises
\* (bytes that are not UTF-8) or does not end (the chunk loop)
ReqDecode(how) ==
    /\ net.rq = "received"
    /\ how \in {"return", "raise", "loop"}
    /\ net' = [net EXCEPT !.rq = CASE how = "return" -> "return"
                                    [] how = "raise" -> "except"
                                    [] OTHER -> "loop"]
    /\ UNCHANGED netRest

\* lines 155-157: the error is printed and raised again
ReqExcept ==
    /\ net.rq = "except"
    /\ net' = [net EXCEPT !.rq = "raise"]
    /\ UNCHANGED netRest

\* request() with the close at the end of the try instead of in a finally
ReqFinallyOnReturnOnly ==
    /\ net.rq \in {"return", "raise"}
    /\ net' = [net EXCEPT
                 !.rq = IF net.rq = "return" THEN "returned" ELSE "raised",
                 !.socks[Current].open = (net.rq = "raise")]
    /\ UNCHANGED netRest

\* lines 158-159: finally, the socket is closed, and the call returns or
\* raises
ReqFinally ==
    /\ net.rq \in {"return", "raise"}
    /\ net' = [net EXCEPT
                 !.rq = IF net.rq = "return" THEN "returned" ELSE "raised",
                 !.socks[Current].open = FALSE]
    /\ UNCHANGED netRest

\* line 228: _cat_stream() opens its socket
StreamSocket ==
    /\ net.st = "idle"
    /\ net.rq \in {"idle", "returned", "raised"}
    /\ net' = [net EXCEPT !.st = "socket",
                          !.stream = Len(net.socks) + 1,
                          !.socks = Append(@, NewSocket("stream"))]
    /\ UNCHANGED netRest

\* line 231: connect(); a failure is caught at line 289
StreamConnect(ok) ==
    /\ net.st = "socket"
    /\ net' = IF ok
              THEN [net EXCEPT !.st = "connected",
                               !.socks[net.stream].connects = @ + 1]
              ELSE [net EXCEPT !.st = "finally"]
    /\ UNCHANGED netRest

\* lines 233-246: the follow request is sent
StreamSend(ok) ==
    /\ net.st = "connected"
    /\ net' = IF ok
              THEN [net EXCEPT !.st = "sent",
                               !.socks[net.stream].sends = @ + 1]
              ELSE [net EXCEPT !.st = "finally"]
    /\ UNCHANGED netRest

\* lines 253-256: the backlog is read with _cat(), which calls request()
StreamBacklog ==
    /\ net.st = "sent"
    /\ net' = [Entered(net) EXCEPT !.st = "backlog"]
    /\ UNCHANGED netRest

\* lines 217-218, 258-259: request() has returned or raised, which _cat()
\* catches; the frames of the backlog are yielded
StreamYield ==
    /\ net.st = "backlog"
    /\ net.rq \in {"returned", "raised"}
    /\ net' = [net EXCEPT !.st = "yielding"]
    /\ UNCHANGED netRest

\* line 262: the backlog is through
StreamLive ==
    /\ net.st = "yielding"
    /\ net' = [net EXCEPT !.st = "live"]
    /\ UNCHANGED netRest

\* lines 263-265, 289-290: recv() returns no bytes, or raises, which is
\* caught and printed; and the consumer drops the generator where it has
\* yielded, which raises GeneratorExit there
StreamLeave ==
    /\ net.st \in {"yielding", "live"}
    /\ net' = [net EXCEPT !.st = "finally"]
    /\ UNCHANGED netRest

\* lines 291-292: finally, the socket is closed
StreamFinally ==
    /\ net.st = "finally"
    /\ net' = [net EXCEPT !.st = "ended", !.socks[net.stream].open = FALSE]
    /\ UNCHANGED netRest

\* calls of request() and one follow, each step of which can fail; at most
\* MaxSockets sockets are opened
NextSock ==
    \/ Len(net.socks) < MaxSockets /\ ReqSocket
    \/ \E ok \in BOOLEAN : ReqConnect(ok)
    \/ \E ok \in BOOLEAN : ReqSend(ok)
    \/ \E ok \in BOOLEAN : ReqRecv(ok)
    \/ \E how \in {"return", "raise", "loop"} : ReqDecode(how)
    \/ ReqExcept
    \/ ReqFinally
    \/ Len(net.socks) < MaxSockets - 1 /\ StreamSocket
    \/ \E ok \in BOOLEAN : StreamConnect(ok)
    \/ \E ok \in BOOLEAN : StreamSend(ok)
    \/ StreamBacklog
    \/ StreamYield
    \/ StreamLive
    \/ StreamLeave
    \/ StreamFinally

SpecSock == Init /\ [][NextSock]_vars

\* ------------------------------------------------------------ the claims

\* C3: a failure of the connection during a call that does not follow
\* reaches the caller as an error; the call never completes as though the
\* store had answered with an empty stream.
C3_ConnectionFailureRaises ==
    op.connFailed => op.raised # "none"

\* C4: once switch has set the selection, a cat, head or append called
\* without a context argument (and without all) sends a request that carries
\* context=<the selection>.
C4_SelectionScopesRequests ==
    (/\ XS_CONTEXT # None
     /\ op.kind \in {"cat", "head", "append"}
     /\ op.options.context = None
     /\ ~op.options.all
     /\ op.sent # <<>>)
        => Param(Last(op.sent).params, "context") = XS_CONTEXT

\* the name a stream of the system context leaves a key with: that of the
\* last frame naming it, its creation or an annotate that follows it
CreatedAt(stream, id) ==
    IF id = XS_CONTEXT_SYSTEM THEN 0
    ELSE CHOOSE i \in 1 .. Len(stream) :
            /\ stream[i].topic = "xs.context"
            /\ stream[i].id = id
            /\ stream[i].meta.name # None

NamedBy(stream, id) ==
    {CreatedAt(stream, id)} \cup
    {j \in (CreatedAt(stream, id) + 1) .. Len(stream) :
        /\ stream[j].topic = "xs.annotate"
        /\ stream[j].meta.updates = Some(id)
        /\ stream[j].meta.name # None}

LastName(stream, id) ==
    LET j == CHOOSE k \in NamedBy(stream, id) :
                \A m \in NamedBy(stream, id) : m <= k
    IN  IF j = 0 THEN "system" ELSE The(stream[j].meta.name)

CreatedIds(stream) ==
    {XS_CONTEXT_SYSTEM} \cup
    {stream[i].id : i \in {k \in 1 .. Len(stream) :
                             /\ stream[k].topic = "xs.context"
                             /\ stream[k].meta.name # None}}

\* C6: the table xs_context_collect returns holds the system context and
\* every context created in the stream it read, each once, under the name of
\* the last annotate that follows its creation, or its creation name; an
\* annotate of an ID that is no key yet adds nothing.
C6_CollectFoldsInStreamOrder ==
    op.collected =>
        /\ {<<op.table[i].id, op.table[i].name>> : i \in 1 .. Len(op.table)}
             = {<<id, LastName(op.stream, id)>> : id \in CreatedIds(op.stream)}
        /\ \A i, j \in 1 .. Len(op.table) :
              op.table[i].id = op.table[j].id => i = j
        /\ op.table[1].id = XS_CONTEXT_SYSTEM

\* a listing of a stream in which an unknown ID was annotated and a context
\* was renamed after its creation
C6_Witness ==
    /\ op.kind = "list"
    /\ ~op.connFailed
    /\ \E j \in 1 .. Len(op.stream) :
          /\ op.stream[j].topic = "xs.annotate"
          /\ op.stream[j].meta.updates = Some(UnknownId)
    /\ \E i \in 1 .. Len(op.stream) :
          /\ op.stream[i].topic = "xs.context"
          /\ op.stream[i].meta.name # None
          /\ \E k \in 1 .. Len(op.table) :
                /\ op.table[k].id = op.stream[i].id
                /\ op.table[k].name # The(op.stream[i].meta.name)

\* context id was created as a, is now named b, and a names nothing
RenamedFromTo(id, a, b) ==
    /\ id \in ContextIds
    /\ \E i \in 1 .. Len(store) :
          /\ store[i].id = id
          /\ store[i].topic = "xs.context"
          /\ store[i].meta.name = Some(a)
    /\ a # b
    /\ LastName(store, id) = b
    /\ \A c \in CreatedIds(store) : LastName(store, c) # a

\* C5 as stated: with C created as a and renamed to b, xs_context(a) fails
\* with not-found and xs_context(b) and xs_context(ID of C) return the ID of
\* C; and xs_context(x) returns x for every ID x of the collected table.
C5_ResolveReturnsTheContext ==
    (op.kind = "resolve" /\ ~op.connFailed) =>
        /\ \A i \in 1 .. Len(op.table) :
              op.selected = Some(op.table[i].id)
                  => op.value = Some(op.table[i].id)
        /\ \A id \in ContextIds, a \in Names, b \in Names \cup NewNames :
              RenamedFromTo(id, a, b) =>
                  /\ (op.selected = Some(a) => op.raised = "ValueError")
                  /\ (op.selected \in {Some(b), Some(id)}
                          => op.value = Some(id))

\* C5, amended: xs_context(x) returns the ID of the first entry of the
\* collected table whose ID or name is x, and fails with not-found when no
\* entry matches.
C5_ResolveReturnsFirstMatch ==
    op.kind = "resolve" =>
        LET sel == The(op.selected)
            hits == {i \in 1 .. Len(op.table) :
                        op.table[i].id = sel \/ op.table[i].name = sel}
        IN  IF hits = {}
            THEN op.raised = "ValueError" /\ op.value = None
            ELSE /\ op.raised = "none"
                 /\ \E i \in hits :
                       /\ \A j \in hits : i <= j
                       /\ op.value = Some(op.table[i].id)

\* a context created as a and renamed to b, resolved by its new name
C5_Witness ==
    /\ op.kind = "resolve"
    /\ ~op.connFailed
    /\ \E id \in ContextIds :
          /\ RenamedFromTo(id, "a", "b")
          /\ op.selected = Some("b")
          /\ op.value = Some(id)

\* a follow session started with no option but follow
PlainFollow ==
    /\ sess.state # "idle"
    /\ sess.options = [NoOptions EXCEPT !.follow = TRUE]

\* C1: a follow session yields the frames the store held when it started,
\* each once and in store order, then the frames appended since, and nothing
\* else: what it has yielded is at every moment a prefix of the log.  (The
\* claim also asks that a new frame is yielded eventually.)
C1_FollowYieldsBacklogThenNew ==
    PlainFollow =>
        LET log == Select(store, <<>>)
        IN  /\ Len(sess.out) <= Len(log)
            /\ sess.out = SubSeq(log, 1, Len(sess.out))

\* C9: within a follow session no frame is yielded after a frame the store
\* appended later.
C9_FollowYieldsInStoreOrder ==
    \A i, j \in 1 .. Len(sess.out) :
        i < j => IdIndex(sess.out[i].id) <= IdIndex(sess.out[j].id)

\* C10: the backlog request of a follow session carries every option of the
\* caller except follow.
C10_BacklogRequestForwardsOptions ==
    sess.backlog # <<>> =>
        sess.backlog[1].params = CatParams([sess.options EXCEPT !.follow = FALSE])

\* hex digits only, optionally followed by a ';' and an extension
HexLine(s) ==
    \E k \in 1 .. Len(s) :
        /\ \A i \in 1 .. k : s[i] \in HexDigits
        /\ (k = Len(s) \/ s[k + 1] = ";")

\* the lines that follow the header block of the response
BodyLines ==
    Splitlines(SliceFrom(response_text, Find(response_text, CRLFCRLF, 0) + 4))

\* C7: a line of hex digits only, with or without a ';' extension, is never
\* yielded as a frame, by a non-follow read or by the live phase of follow
\* mode.
C7_HexLineNeverYielded ==
    \A i \in 1 .. Len(yielded) : ~HexLine(yielded[i])

\* a live read whose payload held a hex-only line and a frame line: the
\* frame was yielded
C7_Witness ==
    /\ rpc = "closed"
    /\ yielded # <<>>
    /\ chunks # <<>>
    /\ \E i \in 1 .. Len(Splitlines(chunks[1])) :
          HexLine(Splitlines(chunks[1])[i])

\* C2: a valid chunked body decodes to exactly the concatenation of its
\* chunk data, with nothing added, removed or normalized.
C2_ChunkedDecodeExact ==
    rpc \in {"returned", "done"} => content = Concat(chunks)

\* the frames of b, one for one, with the topic, meta and content of a's
Equivalent(a, b) ==
    /\ Len(a) = Len(b)
    /\ \A i \in 1 .. Len(a) :
          /\ a[i].topic = b[i].topic
          /\ a[i].meta = b[i].meta
          /\ a[i].hash = b[i].hash

\* C8: once a store has been exported to a fresh path and the path imported
\* into an empty store, with every request delivered, the import has ended
\* without an error, the other store holds the frames of the first with
\* their topic, meta and content, and every content a frame refers to.
C8_ExportThenImportRoundTrips ==
    (/\ op.kind = "import"
     /\ op.before = Some(NoTarget)
     /\ disk.exists /\ ~disk.failed
     /\ ~op.connFailed) =>
        /\ op.raised = "none"
        /\ Equivalent(store, target.log)
        /\ \A h \in Hashes(store) :
              [hash |-> h, content |-> ServeCasGet(h)] \in target.cas

\* C11: a follow with tail yields no frame the store held before the call
\* started, only frames appended afterwards.
C11_TailFollowSkipsBacklog ==
    (sess.state # "idle" /\ sess.options.follow /\ sess.options.tail) =>
        \A i \in 1 .. Len(sess.out) : IdIndex(sess.out[i].id) > sess.before

\* the requests a follow session has sent
SessionSent == sess.resolve \o sess.live \o sess.backlog

NoContext(sent) ==
    \A i \in 1 .. Len(sent) : Param(sent[i].params, "context") = None

NeverBoth(sent) ==
    \A i \in 1 .. Len(sent) :
        Param(sent[i].params, "all") = None
            \/ Param(sent[i].params, "context") = None

\* C12: a cat called with all and a context sends no request that carries a
\* context parameter and does not resolve the context; and no request of a
\* cat carries both all=true and a context parameter.
C12_AllExcludesContext ==
    /\ op.kind = "cat" =>
          /\ NeverBoth(op.sent)
          /\ (op.options.all /\ op.options.context # None) =>
                /\ NoContext(op.sent)
                /\ ~op.collected
                /\ op.raised = "none"
    /\ sess.state # "idle" =>
          /\ NeverBoth(SessionSent)
          /\ (sess.call.all /\ sess.call.context # None) =>
                /\ NoContext(SessionSent)
                /\ sess.resolve = <<>>
                /\ sess.raised = "none"

\* a cat with all and the name of an existing context has sent its request
C12_Witness ==
    /\ op.kind = "cat"
    /\ op.options.all /\ op.options.context = Some("a")
    /\ ContextIds # {}
    /\ op.sent # <<>>

\* the store answers a pushed file of cas/ with another hash than the one its
\* name decodes to
Mismatch(cas_file) == ServeCasPost(cas_file.content) # b64decode(cas_file.name)

\* C13: an import whose requests are all delivered fails with a hash mismatch
\* exactly when the store answers some pushed file of cas/ with a hash that
\* differs from the one decoded from the file's name; when every hash matches
\* it ends normally having sent every line of frames.jsonl, and when one
\* differs no line of frames.jsonl is sent.
C13_ImportFailsIffHashMismatch ==
    (op.kind = "import" /\ disk.exists /\ ~op.connFailed) =>
        /\ op.raised = "ValueError" <=> (\E f \in disk.cas : Mismatch(f))
        /\ (\A f \in disk.cas : ~Mismatch(f)) =>
               op.raised = "none" /\ op.frames = disk.frames
        /\ (\E f \in disk.cas : Mismatch(f)) => op.frames = <<>>


\* C14: while the chunk loop runs on any body, each pass moves the read
\* position strictly forward (so the loop ends within the length of the
\* body), and by exactly one after a size line that does not parse.
C14_ChunkLoopAdvances ==
    (rpc = "loop" /\ ~ChunkPass(body, pos).leaves) =>
        /\ ChunkPass(body, pos).pos > pos
        /\ ~ChunkPass(body, pos).parsed => ChunkPass(body, pos).pos = pos + 1

\* the lines of a stream of frames: each ends at a "\n"; what follows the
\* last "\n" is a line when it is not empty
RECURSIVE LinesOf(_)
LinesOf(t) ==
    LET line_end == Find(t, <<LF>>, 0)
    IN  IF t = <<>> THEN <<>>
        ELSE IF line_end = -1 THEN <<t>>
        ELSE <<Slice(t, 0, line_end)>> \o LinesOf(SliceFrom(t, line_end + 1))

\* the valid frame lines of a stream, trimmed, in their order
RECURSIVE ValidFrameLines(_)
ValidFrameLines(ls) ==
    IF ls = <<>> THEN <<>>
    ELSE IF IsJsonObject(Strip(Head(ls)))
    THEN <<Strip(Head(ls))>> \o ValidFrameLines(Tail(ls))
    ELSE ValidFrameLines(Tail(ls))

\* C15: a read without follow that has ended has yielded exactly the valid
\* frame lines of the stream the store sent, in their order: lines that do
\* not parse are dropped and every valid line after them is still yielded.
C15_YieldsExactlyValidFrameLines ==
    rpc = "done" => yielded = ValidFrameLines(LinesOf(Concat(chunks)))

\* C16: a listing of the contexts leaves the store and the selection as they
\* were, and a listing that follows another one, with no append in between,
\* returns the same table.
C16_CollectIsIdempotent ==
    [][op'.kind = "list" =>
          /\ store' = store
          /\ XS_CONTEXT' = XS_CONTEXT
          /\ op.kind = "list" => op'.table = op.table]_vars

\* what the store sent after the separator of a response without the
\* chunked header
PlainHeader == ResponseHeader(FALSE) \o CRLFCRLF

PlainResponse ==
    SubSeq(response_text, 1, Len(PlainHeader)) = PlainHeader

PlainBody == SubSeq(response_text, Len(PlainHeader) + 1, Len(response_text))

\* C17: what request() returns for a response that is not chunked is the
\* text after the first separator, character for character.
C17_PlainBodyVerbatim ==
    (PlainResponse /\ rpc \in {"returned", "done"}) => content = PlainBody

\* a body that is not chunked was returned that starts with a line that
\* reads as a chunk size and holds the separator again
C17_Witness ==
    /\ PlainResponse
    /\ rpc = "returned"
    /\ Find(content, CRLF, 0) > 0
    /\ IntBase16(Slice(content, 0, Find(content, CRLF, 0))).ok
    /\ Find(content, CRLFCRLF, 0) # -1

\* C18: the live phase of a follow is left only when the peer closes the
\* connection, a read on it fails or the consumer stops; the sequence then
\* ends without an error, and with the frames it had yielded.
C18_LivePhaseEndsOnlyFromOutside ==
    [][(sess.state = "live" /\ sess'.state # "live") =>
          /\ sess'.state = "ended"
          /\ sess'.end \in EndCauses
          /\ sess'.raised = "none"
          /\ sess'.out = sess.out]_vars

\* a follow ended by a failed read after it had yielded a frame that was
\* appended during the live phase
C18_Witness ==
    /\ sess.state = "ended"
    /\ sess.end = "failed"
    /\ sess.live # <<>>
    /\ \E i \in 1 .. Len(sess.out) : IdIndex(sess.out[i].id) > sess.before

\* the entries of a listing that are marked active
ActiveEntries(listing) ==
    {[id |-> listing[i].id, name |-> listing[i].name] :
        i \in {k \in 1 .. Len(listing) : listing[k].active}}

\* C19: a Ctx.new(name) that returns has appended one xs.context frame named
\* name to the system context, returns the ID of that frame and leaves it
\* selected; a Ctx.list that follows shows that ID under that name as its
\* only active entry.
C19_NewCreatesAndSelects ==
    [][/\ (op'.kind = "new" /\ op'.raised = "none") =>
             /\ Len(store') = Len(store) + 1
             /\ SubSeq(store', 1, Len(store)) = store
             /\ Last(store').topic = "xs.context"
             /\ Last(store').meta.name = op'.selected
             /\ Last(store').context_id = XS_CONTEXT_SYSTEM
             /\ op'.value = Some(Last(store').id)
             /\ XS_CONTEXT' = Some(Last(store').id)
       /\ (op.kind = "new" /\ op.raised = "none" /\ op'.kind = "list") =>
             ActiveEntries(op'.frames)
               = {[id |-> Last(store).id, name |-> The(op.selected)]}]_vars

\* the IDs the table lists under x, as an ID or as a name
ListedUnder(table, x) ==
    {table[i].id : i \in {k \in 1 .. Len(table) :
                            table[k].id = x \/ table[k].name = x}}

\* the call returned the selection as it was, sent nothing and changed
\* nothing
ReadsSelection ==
    /\ XS_CONTEXT' = XS_CONTEXT
    /\ op'.sent = <<>>
    /\ op'.raised = "none"
    /\ op'.value = Some(EnvGet(XS_CONTEXT))

\* C20: a switch that fails leaves the selection as it was; one that
\* succeeds leaves selected, and returns, an ID the contexts list under what
\* was asked for; xs_context(None), Ctx.get and switch(None) return the
\* selection, send no request and change nothing.
C20_SwitchSelectsOnlyOnSuccess ==
    [][/\ (op'.kind = "switch" /\ op'.selected # None) =>
             IF op'.raised # "none"
             THEN XS_CONTEXT' = XS_CONTEXT
             ELSE /\ XS_CONTEXT' # None
                  /\ The(XS_CONTEXT') \in
                        ListedUnder(op'.table, The(op'.selected))
                  /\ op'.value = XS_CONTEXT'
       /\ (op'.kind \in {"switch", "resolve"} /\ op'.selected = None) =>
             ReadsSelection
       /\ op'.kind = "get" => ReadsSelection]_vars

\* a switch to a name that names nothing has failed, and the context selected
\* before it is still selected
C20_Witness ==
    /\ op.kind = "switch"
    /\ op.selected = Some("b")
    /\ op.raised = "ValueError"
    /\ ~op.connFailed
    /\ XS_CONTEXT # None
    /\ The(XS_CONTEXT) \in ContextIds
    /\ op.before = XS_CONTEXT

\* the sockets opened by request(), by _cat_stream()
SocketsOf(by) == {i \in 1 .. Len(net.socks) : net.socks[i].by = by}

\* C21: no socket is connected or written a request to more than once; each
\* call of request() opens one socket; once request() has returned or raised
\* every socket it opened is closed, and a call that returned connected once
\* and sent one request; once a follow has ended, however it ended, its
\* socket is closed.
C21_SocketsClosedOnEveryExit ==
    /\ \A i \in 1 .. Len(net.socks) :
          net.socks[i].connects <= 1 /\ net.socks[i].sends <= 1
    /\ Cardinality(SocketsOf("request")) = net.calls
    /\ net.rq \in {"idle", "returned", "raised"} =>
          \A i \in SocketsOf("request") : ~net.socks[i].open
    /\ net.rq = "returned" =>
          net.socks[Current].connects = 1 /\ net.socks[Current].sends = 1
    /\ net.st \in {"idle", "ended"} =>
          \A i \in SocketsOf("stream") : ~net.socks[i].open

\* a follow has ended after its request was sent and its backlog request
\* raised, and a request() after it has raised too
C21_Witness ==
    /\ net.st = "ended"
    /\ net.rq = "raised"
    /\ net.calls = 2
    /\ net.socks[net.stream].sends = 1
    /\ \A i \in SocketsOf("request") : net.socks[i].connects = 0

\* C22: a read without follow of a chunked response yields the frames that
\* the same body yields when it is sent without chunking, wherever the chunk
\* boundaries fall.
C22_FramesIndependentOfChunking ==
    rpc = "done" => yielded = CatLines(Splitlines(Concat(chunks)))

====
